---- MODULE Spec2Model ----
(***************************************************************************)
(* Model of the MCP demo: the Preference/Conversation store (MemoryMCP),   *)
(* the weather lookup (WeatherMCP), the tool dispatcher (SimpleMCP) and    *)
(* the conversation orchestrator (SmartAI), as state machines.             *)
(*                                                                         *)
(* Python values are modelled as follows: a dict is a function whose       *)
(* domain is its key set, a list is a sequence, a str is a string, and     *)
(* None is the string "<None>", which is no string of the model's inputs.  *)
(* An f-string is the tuple of its pieces.                                 *)
(***************************************************************************)
EXTENDS Integers, Sequences, FiniteSets, TLC

VARIABLES
    memory,                 \* MemoryMCP.memory: the in-memory document (a dict)
    disk,                   \* data/memory.json: [state, text]
    clock,                  \* the wall clock datetime.now() reads
    lastCall,               \* the last process_tool_call: [tool, args]
    ret,                    \* what that call did: [exc, value]
    netlog,                 \* the endpoints that call requested, in order
    lastSave,               \* outcome of the _save_memory that call made
    faults,                 \* I/O faults injected so far
    twice,                  \* the last two calls were the same store_preference
    firstSeen,              \* per category: preference -> rank of its first insertion
    conversation_history,   \* SmartAI.conversation_history
    pc,                     \* position of the running chat() call
    turn,                   \* locals of the running chat() call
    chatRet,                \* what the last chat() call returned
    turns,                  \* chat() calls started so far
    second                  \* a second store on the same document: [step, memory]

vars == <<memory, disk, clock, lastCall, ret, netlog, lastSave, faults, twice,
          firstSeen, conversation_history, pc, turn, chatRet, turns, second>>

storeVars == <<memory, disk, clock, lastCall, ret, netlog, lastSave, faults,
               twice, firstSeen, second>>

chatVars == <<conversation_history, pc, turn, chatRet, turns>>

(***************************************************************************)
(* Bounds of the model.                                                    *)
(***************************************************************************)
MaxConvs == 2

MaxLog == 6

MaxFaults == 1

MaxFaultyConvs == 1

MaxTurns == 2

MaxSharedConvs == 1

(***************************************************************************)
(* Python values.                                                          *)
(***************************************************************************)
None == "<None>"

EmptyDict == [k \in {} |-> k]

\* Python truthiness of an Optional[str]
Truthy(x) == x # None /\ x # ""

\* dict.get(key, default)
Get(d, key, default) == IF key \in DOMAIN d THEN d[key] ELSE default

\* x in list
InList(x, list) == \E i \in 1..Len(list) : list[i] = x

\* list[-n:]
LastN(list, n) ==
    IF Len(list) <= n THEN list ELSE SubSeq(list, Len(list) - n + 1, Len(list))

(***************************************************************************)
(* Strings whose characters matter (conversation topics).                  *)
(***************************************************************************)
Chars ==
    [s \in {"", "a", "AB", "Ab"} |->
        CASE s = ""   -> <<>>
          [] s = "a"  -> <<"a">>
          [] s = "AB" -> <<"A", "B">>
          [] s = "Ab" -> <<"A", "b">>]

LowerChar(c) ==
    CASE c = "A" -> "a"
      [] c = "B" -> "b"
      [] OTHER   -> c

\* str.lower(), as a character sequence
Lower(s) == [i \in 1..Len(Chars[s]) |-> LowerChar(Chars[s][i])]

\* a in b, for character sequences
IsSubstring(a, b) ==
    \E i \in 0..(Len(b) - Len(a)) : SubSeq(b, i + 1, i + Len(a)) = a

(***************************************************************************)
(* The persisted document.  json.dump writes an object as its members, in  *)
(* order; json.load rebuilds the dict, a repeated key keeping its last     *)
(* value.  The disk is [state, text]: no file, an unparsable file, or a    *)
(* file holding a document.                                                *)
(***************************************************************************)
CategoryOrder == <<"", "food", "travel">>

EntryKeys == <<"topic", "summary", "timestamp">>

\* the index of the last member of an object text that has key k
LastMember(members, k) ==
    CHOOSE i \in 1..Len(members) :
        /\ members[i][1] = k
        /\ \A j \in (i + 1)..Len(members) : members[j][1] # k

MemberKeys(members) == {members[i][1] : i \in 1..Len(members)}

dump_preferences(prefs) ==
    LET keys == SelectSeq(CategoryOrder, LAMBDA c : c \in DOMAIN prefs)
    IN  [i \in 1..Len(keys) |-> <<keys[i], prefs[keys[i]]>>]

load_preferences(members) ==
    [c \in MemberKeys(members) |-> members[LastMember(members, c)][2]]

\* dump_entry leaving the timestamp out
dump_entry_NoTimestamp(entry) ==
    LET keys == SelectSeq(EntryKeys, LAMBDA k : k \in DOMAIN entry /\ k # "timestamp")
    IN  [i \in 1..Len(keys) |-> <<keys[i], entry[keys[i]]>>]

dump_entry(entry) ==
    LET keys == SelectSeq(EntryKeys, LAMBDA k : k \in DOMAIN entry)
    IN  [i \in 1..Len(keys) |-> <<keys[i], entry[keys[i]]>>]

load_entry(members) ==
    [k \in MemberKeys(members) |-> members[LastMember(members, k)][2]]

dump_conversations(convs) == [i \in 1..Len(convs) |-> dump_entry(convs[i])]

load_conversations(items) == [i \in 1..Len(items) |-> load_entry(items[i])]

\* json.dump(self.memory, f, indent=2)
json_dump(mem) ==
    (IF "preferences" \in DOMAIN mem
        THEN << <<"preferences", dump_preferences(mem["preferences"])>> >>
        ELSE <<>>)
    \o
    (IF "conversations" \in DOMAIN mem
        THEN << <<"conversations", dump_conversations(mem["conversations"])>> >>
        ELSE <<>>)

\* json.load(f)
json_load(text) ==
    [k \in MemberKeys(text) |->
        IF k = "preferences"
            THEN load_preferences(text[LastMember(text, k)][2])
            ELSE load_conversations(text[LastMember(text, k)][2])]

NoFile == [state |-> "absent", text |-> <<>>]

CorruptFile == [state |-> "corrupt", text |-> <<>>]

ReadOutcomes == {"ok", "io_error"}

SaveOutcomes == {"ok", "open_failed", "write_failed"}

\* _load_memory falling back to a document with both keys, not to {}
_load_memory_Skeleton(dsk, read) ==
    IF dsk.state = "ok" /\ read = "ok"
        THEN json_load(dsk.text)
        ELSE [preferences |-> EmptyDict, conversations |-> <<>>]

\* MemoryMCP._load_memory: the document, or {} when there is no file or the
\* read or the parse raises
_load_memory(dsk, read) ==
    IF dsk.state = "absent" THEN EmptyDict
    ELSE IF read = "io_error" THEN EmptyDict
    ELSE IF dsk.state = "corrupt" THEN EmptyDict
    ELSE json_load(dsk.text)

\* _save_memory without its try/except: the I/O error leaves the method
_save_memory_Raises(mem, dsk, outcome) ==
    CASE outcome = "ok" ->
            [disk |-> [state |-> "ok", text |-> json_dump(mem)], exc |-> None]
      [] outcome = "open_failed" ->
            [disk |-> dsk, exc |-> "OSError"]
      [] outcome = "write_failed" ->
            [disk |-> CorruptFile, exc |-> "OSError"]

\* MemoryMCP._save_memory: the file after the call and the exception that
\* leaves it.  open(..., 'w') truncates the file before json.dump writes.
_save_memory(mem, dsk, outcome) ==
    CASE outcome = "ok" ->
            [disk |-> [state |-> "ok", text |-> json_dump(mem)], exc |-> None]
      [] outcome = "open_failed" ->
            [disk |-> dsk, exc |-> None]
      [] outcome = "write_failed" ->
            [disk |-> CorruptFile, exc |-> None]

(***************************************************************************)
(* MemoryMCP.  A store method gives [exc, value, memory, disk, saved].     *)
(***************************************************************************)
\* store_preference without the "not in" test of line 106
store_preference_AlwaysAppend(mem, dsk, category, preference, save) ==
    LET prefs == Get(mem, "preferences", EmptyDict)
        list == Get(prefs, category, <<>>)
        m2 == [k \in DOMAIN mem \cup {"preferences"} |->
                 IF k = "preferences"
                     THEN [c \in DOMAIN prefs \cup {category} |->
                             IF c = category THEN Append(list, preference) ELSE prefs[c]]
                     ELSE mem[k]]
    IN  [exc    |-> None,
         value  |-> [status |-> "stored", category |-> category, preference |-> preference],
         memory |-> m2,
         disk   |-> _save_memory(m2, dsk, save).disk,
         saved  |-> save]

\* store_preference inserting at the front of the list
store_preference_Prepend(mem, dsk, category, preference, save) ==
    LET prefs == Get(mem, "preferences", EmptyDict)
        list == Get(prefs, category, <<>>)
        m2 == [k \in DOMAIN mem \cup {"preferences"} |->
                 IF k = "preferences"
                     THEN [c \in DOMAIN prefs \cup {category} |->
                             IF c # category THEN prefs[c]
                             ELSE IF InList(preference, list) THEN list
                             ELSE <<preference>> \o list]
                     ELSE mem[k]]
    IN  [exc    |-> None,
         value  |-> [status |-> "stored", category |-> category, preference |-> preference],
         memory |-> m2,
         disk   |-> _save_memory(m2, dsk, save).disk,
         saved  |-> save]

\* MemoryMCP.store_preference
store_preference(mem, dsk, category, preference, save) ==
    LET m1 == IF "preferences" \notin DOMAIN mem
                  THEN mem @@ ("preferences" :> EmptyDict)
                  ELSE mem
        p1 == m1["preferences"]
        p2 == IF category \notin DOMAIN p1 THEN p1 @@ (category :> <<>>) ELSE p1
        p3 == IF ~InList(preference, p2[category])
                  THEN [p2 EXCEPT ![category] = Append(@, preference)]
                  ELSE p2
        m2 == [m1 EXCEPT !["preferences"] = p3]
        sv == _save_memory(m2, dsk, save)
    IN  [exc    |-> sv.exc,
         value  |-> IF sv.exc = None
                        THEN [status |-> "stored", category |-> category,
                              preference |-> preference]
                        ELSE EmptyDict,
         memory |-> m2,
         disk   |-> sv.disk,
         saved  |-> save]

\* MemoryMCP.get_preferences
get_preferences(mem, category) ==
    LET preferences == Get(mem, "preferences", EmptyDict)
    IN  IF Truthy(category)
            THEN (category :> Get(preferences, category, <<>>))
            ELSE preferences

\* store_conversation writing a document that holds the log alone
store_conversation_DropsPreferences(mem, dsk, topic, summary, now, save) ==
    LET conversation == [topic |-> topic, summary |-> summary, timestamp |-> now]
        m2 == [conversations |-> Append(Get(mem, "conversations", <<>>), conversation)]
        sv == _save_memory(m2, dsk, save)
    IN  [exc    |-> sv.exc,
         value  |-> [status |-> "stored", topic |-> topic],
         memory |-> m2,
         disk   |-> sv.disk,
         saved  |-> save]

\* MemoryMCP.store_conversation
store_conversation(mem, dsk, topic, summary, now, save) ==
    LET m1 == IF "conversations" \notin DOMAIN mem
                  THEN mem @@ ("conversations" :> <<>>)
                  ELSE mem
        conversation == [topic |-> topic, summary |-> summary, timestamp |-> now]
        m2 == [m1 EXCEPT !["conversations"] = Append(@, conversation)]
        sv == _save_memory(m2, dsk, save)
    IN  [exc    |-> sv.exc,
         value  |-> IF sv.exc = None
                        THEN [status |-> "stored", topic |-> topic]
                        ELSE EmptyDict,
         memory |-> m2,
         disk   |-> sv.disk,
         saved  |-> save]

\* get_conversations slicing the first five entries, conversations[:5]
get_conversations_FirstFive(mem, topic) ==
    LET conversations == Get(mem, "conversations", <<>>)
    IN  IF Truthy(topic)
            THEN [conversations |->
                    SelectSeq(conversations,
                              LAMBDA c : IsSubstring(Lower(topic), Lower(c.topic)))]
            ELSE [conversations |->
                    IF Len(conversations) <= 5 THEN conversations
                    ELSE SubSeq(conversations, 1, 5)]

\* MemoryMCP.get_conversations
get_conversations(mem, topic) ==
    LET conversations == Get(mem, "conversations", <<>>)
    IN  IF Truthy(topic)
            THEN [conversations |->
                    SelectSeq(conversations,
                              LAMBDA c : IsSubstring(Lower(topic), Lower(c.topic)))]
            ELSE [conversations |-> LastN(conversations, 5)]

(***************************************************************************)
(* WeatherMCP.  The two endpoints are the environment: geo and fc name     *)
(* what each request does, code is the weathercode of a good forecast.     *)
(***************************************************************************)
GeoOutcomes == {"network_error", "no_results", "malformed", "found"}

ForecastOutcomes == {"network_error", "no_current", "malformed", "ok"}

WeatherCodes == {95, 999}

Location == [name |-> "Tokyo", country |-> "Japan", latitude |-> 35, longitude |-> 139]

Current(code) ==
    [temperature |-> 21, windspeed |-> 7, winddirection |-> 180, weathercode |-> code]

\* WeatherMCP._get_weather_description
_get_weather_description(code) ==
    LET weather_codes ==
            (0 :> "Clear sky") @@ (1 :> "Mainly clear") @@ (2 :> "Partly cloudy")
            @@ (3 :> "Overcast") @@ (45 :> "Foggy") @@ (48 :> "Depositing rime fog")
            @@ (51 :> "Light drizzle") @@ (53 :> "Moderate drizzle")
            @@ (55 :> "Dense drizzle") @@ (61 :> "Slight rain")
            @@ (63 :> "Moderate rain") @@ (65 :> "Heavy rain")
            @@ (80 :> "Slight rain showers") @@ (81 :> "Moderate rain showers")
            @@ (82 :> "Violent rain showers") @@ (95 :> "Thunderstorm")
            @@ (96 :> "Thunderstorm with slight hail")
            @@ (99 :> "Thunderstorm with heavy hail")
    IN  Get(weather_codes, code, "Unknown conditions")

\* get_weather asking for the forecast before it looks at the geocoding results
get_weather_ForecastFirst(city, country, env) ==
    IF env.geo = "no_results" THEN
        [value |-> [error |-> <<"City '", city, "' not found">>],
         net   |-> <<"geocoding", "forecast">>]
    ELSE
        [value |-> [error |-> <<"Weather data unavailable">>],
         net   |-> <<"geocoding", "forecast">>]

\* WeatherMCP.get_weather: [value, net], net the endpoints requested in order
get_weather(city, country, env) ==
    IF env.geo = "network_error" THEN
        [value |-> [error |-> <<"Weather data unavailable: ", "geocoding request failed">>],
         net   |-> <<"geocoding">>]
    ELSE IF env.geo = "no_results" THEN
        [value |-> [error |-> <<"City '", city, "' not found">>],
         net   |-> <<"geocoding">>]
    ELSE IF env.geo = "malformed" THEN
        [value |-> [error |-> <<"Weather data unavailable: ", "'latitude'">>],
         net   |-> <<"geocoding">>]
    ELSE IF env.fc = "network_error" THEN
        [value |-> [error |-> <<"Weather data unavailable: ", "forecast request failed">>],
         net   |-> <<"geocoding", "forecast">>]
    ELSE IF env.fc = "no_current" THEN
        [value |-> [error |-> <<"Weather data unavailable">>],
         net   |-> <<"geocoding", "forecast">>]
    ELSE IF env.fc = "malformed" THEN
        [value |-> [error |-> <<"Weather data unavailable: ", "'temperature'">>],
         net   |-> <<"geocoding", "forecast">>]
    ELSE
        [value |-> [city           |-> Location.name,
                    country        |-> Location.country,
                    temperature    |-> <<Current(env.code).temperature, "C">>,
                    wind_speed     |-> <<Current(env.code).windspeed, " km/h">>,
                    wind_direction |-> <<Current(env.code).winddirection, "deg">>,
                    conditions     |-> _get_weather_description(Current(env.code).weathercode),
                    coordinates    |-> <<Location.latitude, ", ", Location.longitude>>],
         net   |-> <<"geocoding", "forecast">>]

(***************************************************************************)
(* SimpleMCP.  kwargs is the argument bundle, a dict from key to string.   *)
(* The call gives [exc, value, memory, disk, saved, net].                  *)
(***************************************************************************)
ToolNames ==
    {"get_weather", "store_preference", "get_preferences",
     "store_conversation", "get_conversations"}

\* the parameters of process_tool_call that a keyword of the same name hits
BoundNames == {"self", "tool_name"}

Unchanged(mem, dsk, exc, value, net) ==
    [exc |-> exc, value |-> value, memory |-> mem, disk |-> dsk,
     saved |-> "none", net |-> net]

\* SimpleMCP.process_tool_call(tool_name, **kwargs)
process_tool_call(tool_name, kwargs, mem, dsk, now, env) ==
    IF DOMAIN kwargs \cap BoundNames # {} THEN
        \* "got multiple values for argument 'tool_name'"
        Unchanged(mem, dsk, "TypeError", EmptyDict, <<>>)
    ELSE IF tool_name = "get_weather" THEN
        LET city == Get(kwargs, "city", "")
            country == Get(kwargs, "country", "")
            r == get_weather(city, country, env)
        IN  Unchanged(mem, dsk, None, r.value, r.net)
    ELSE IF tool_name = "store_preference" THEN
        LET category == Get(kwargs, "category", "")
            preference == Get(kwargs, "preference", "")
            r == store_preference(mem, dsk, category, preference, env.save)
        IN  [exc |-> r.exc, value |-> r.value, memory |-> r.memory, disk |-> r.disk,
             saved |-> r.saved, net |-> <<>>]
    ELSE IF tool_name = "get_preferences" THEN
        LET category == Get(kwargs, "category", None)
        IN  Unchanged(mem, dsk, None, get_preferences(mem, category), <<>>)
    ELSE IF tool_name = "store_conversation" THEN
        LET topic == Get(kwargs, "topic", "")
            summary == Get(kwargs, "summary", "")
            r == store_conversation(mem, dsk, topic, summary, now, env.save)
        IN  [exc |-> r.exc, value |-> r.value, memory |-> r.memory, disk |-> r.disk,
             saved |-> r.saved, net |-> <<>>]
    ELSE IF tool_name = "get_conversations" THEN
        LET topic == Get(kwargs, "topic", None)
        IN  Unchanged(mem, dsk, None, get_conversations(mem, topic), <<>>)
    ELSE
        Unchanged(mem, dsk, None, [error |-> <<"Unknown tool: ", tool_name>>], <<>>)

(***************************************************************************)
(* The calls and the environments the model draws from.                    *)
(***************************************************************************)
UnknownTool == "foo"

AllTools == ToolNames \cup {UnknownTool}

\* the values a caller gives each keyword of a tool
KeyVals(tool) ==
    CASE tool = "get_weather"        -> [city |-> {"Tokyo"}]
      [] tool = "store_preference"   -> [category |-> {"travel"}, preference |-> {"museums"}]
      [] tool = "get_preferences"    -> [category |-> {"", "travel"}]
      [] tool = "store_conversation" -> [topic |-> {"Ab"}]
      [] tool = "get_conversations"  -> [topic |-> {"", "a", "AB"}]
      [] OTHER                       -> [city |-> {"Tokyo"}]

\* every bundle over a subset of the tool's keywords, and one bundle whose
\* key is the name of a parameter of process_tool_call
Bundles(tool) ==
    LET kv == KeyVals(tool)
    IN  UNION {{b \in [K -> UNION {kv[k] : k \in K}] : \A k \in K : b[k] \in kv[k]}
               : K \in SUBSET DOMAIN kv}
        \cup {[tool_name |-> "get_weather"]}

DefaultEnv == [geo |-> "found", fc |-> "ok", code |-> 95, save |-> "ok"]

Envs(tool) ==
    CASE tool = "get_weather" ->
            {[DefaultEnv EXCEPT !.geo = g] : g \in GeoOutcomes}
            \cup {[DefaultEnv EXCEPT !.fc = f] : f \in ForecastOutcomes}
            \cup {[DefaultEnv EXCEPT !.code = c] : c \in WeatherCodes}
      [] tool \in {"store_preference", "store_conversation"} ->
            {[DefaultEnv EXCEPT !.save = s] : s \in SaveOutcomes}
      [] OTHER -> {DefaultEnv}

NoCall == [tool |-> None, args |-> EmptyDict]

NoRet == [exc |-> None, value |-> EmptyDict]

Preferences(mem) == Get(mem, "preferences", EmptyDict)

Conversations(mem) == Get(mem, "conversations", <<>>)

\* the rank of each stored preference in its category's list
SeedFirstSeen(mem) ==
    LET prefs == Preferences(mem)
    IN  [c \in DOMAIN prefs |->
            [p \in {prefs[c][i] : i \in 1..Len(prefs[c])} |->
                CHOOSE i \in 1..Len(prefs[c]) : prefs[c][i] = p]]

\* a store_preference(category, preference) call was made: the preference
\* gets the next rank of its category unless it has one
NoteFirstSeen(fs, category, preference) ==
    LET seen == Get(fs, category, EmptyDict)
        next == IF preference \in DOMAIN seen THEN seen
                ELSE seen @@ (preference :> Cardinality(DOMAIN seen) + 1)
    IN  [c \in DOMAIN fs \cup {category} |-> IF c = category THEN next ELSE fs[c]]

(***************************************************************************)
(* Initial state: one store constructed where there is no document yet, or *)
(* an unparsable one; one orchestrator with an empty transcript.           *)
(***************************************************************************)
NoArguments == [kind |-> None, obj |-> EmptyDict]

NoFunctionCall == [name |-> None, arguments |-> NoArguments]

NoMessage == [content |-> <<None>>, function_call |-> NoFunctionCall]

\* the locals of chat() and _handle_function_call before the first request,
\* with what the turn has done so far: the tool names its latest request
\* carried, the requests it sent, the dispatcher calls it made
NoTurn ==
    [message |-> NoMessage, tool_result |-> EmptyDict, final_response |-> NoMessage,
     sent |-> {}, requests |-> 0, dispatches |-> 0]

\* no second store is live
NoSecond == [step |-> 0, memory |-> EmptyDict]

Init ==
    /\ disk \in {NoFile, CorruptFile}
    /\ memory = _load_memory(disk, "ok")
    /\ clock = 1
    /\ lastCall = NoCall
    /\ ret = NoRet
    /\ netlog = <<>>
    /\ lastSave = "none"
    /\ faults = 0
    /\ twice = FALSE
    /\ firstSeen = EmptyDict
    /\ conversation_history = <<>>
    /\ pc = "idle"
    /\ turn = NoTurn
    /\ chatRet = <<>>
    /\ turns = 0
    /\ second = NoSecond

\* the store's variables after process_tool_call(tool, **kwargs) gave r
Dispatched(tool, kwargs, r) ==
    /\ memory' = r.memory
    /\ disk' = r.disk
    /\ clock' = IF tool = "store_conversation" /\ r.exc = None THEN clock + 1 ELSE clock
    /\ lastCall' = [tool |-> tool, args |-> kwargs]
    /\ ret' = [exc |-> r.exc, value |-> r.value]
    /\ netlog' = r.net
    /\ lastSave' = r.saved
    /\ faults' = IF r.saved \in {"none", "ok"} THEN faults ELSE faults + 1
    /\ twice' = /\ tool = "store_preference"
                /\ r.exc = None
                /\ ret.exc = None
                /\ lastCall = [tool |-> tool, args |-> kwargs]
    /\ firstSeen' = IF tool = "store_preference" /\ r.exc = None
                        THEN NoteFirstSeen(firstSeen, Get(kwargs, "category", ""),
                                           Get(kwargs, "preference", ""))
                        ELSE firstSeen
    /\ second' = second

\* the calls the bounds of the model allow: the log holds at most maxConvs
\* entries, at most maxFaults I/O faults happen
Allowed(tool, env, maxConvs, maxFaults) ==
    /\ tool = "store_conversation" => Len(Conversations(memory)) < maxConvs
    /\ env.save # "ok" => faults < maxFaults

\* a caller other than the orchestrator (demo_mcp_tools) calls the dispatcher
DirectCall(tools, maxConvs, maxFaults) ==
    /\ pc = "idle"
    /\ \E tool \in tools :
        \E kwargs \in Bundles(tool) :
            \E env \in Envs(tool) :
                /\ Allowed(tool, env, maxConvs, maxFaults)
                /\ Dispatched(tool, kwargs,
                              process_tool_call(tool, kwargs, memory, disk, clock, env))
    /\ UNCHANGED chatVars

\* the process ends and a new one constructs the store: MemoryMCP.__init__
Restart(maxFaults) ==
    /\ pc = "idle"
    /\ \E read \in ReadOutcomes :
        /\ read # "ok" => disk.state # "absent" /\ faults < maxFaults
        /\ memory' = _load_memory(disk, read)
        /\ faults' = IF read = "ok" THEN faults ELSE faults + 1
    /\ firstSeen' = SeedFirstSeen(memory')
    /\ lastCall' = NoCall
    /\ ret' = NoRet
    /\ netlog' = <<>>
    /\ lastSave' = "none"
    /\ twice' = FALSE
    /\ conversation_history' = <<>>
    /\ turn' = NoTurn
    /\ chatRet' = <<>>
    /\ UNCHANGED <<disk, clock, pc, turns, second>>

\* every tool, a short conversation log, no I/O fault
Next == DirectCall(AllTools, MaxConvs, 0) \/ Restart(0)

Spec == Init /\ [][Next]_vars

\* the conversation tools alone, a log longer than the five entries
\* get_conversations returns, no I/O fault
LogTools == {"store_conversation", "get_conversations"}

NextLog == DirectCall(LogTools, MaxLog, 0) \/ Restart(0)

SpecLog == Init /\ [][NextLog]_vars

\* the store's tools, with I/O faults: a save or a load that fails
MemoryTools ==
    {"store_preference", "get_preferences", "store_conversation", "get_conversations"}

NextFaults == DirectCall(MemoryTools, MaxFaultyConvs, MaxFaults) \/ Restart(MaxFaults)

SpecFaults == Init /\ [][NextFaults]_vars

(***************************************************************************)
(* SmartAI.  A str is the tuple of its pieces, so content None is          *)
(* <<None>>; a transcript entry has the keys role, content, name and       *)
(* function_call, an absent key being None.  The model endpoint is the     *)
(* environment.  function_call.arguments is a JSON text: of an object, of  *)
(* an array, or malformed.                                                 *)
(***************************************************************************)
UserMessages == {"weather in Tokyo"}

ReplyTexts == {"It is sunny in Tokyo"}

\* the tools and the environments of the calls the model asks for
ChatTools == AllTools

ChatEnvs(tool) ==
    IF tool = "get_weather"
        THEN {DefaultEnv, [DefaultEnv EXCEPT !.geo = "no_results"]}
        ELSE {DefaultEnv}

ModelArguments(tool) ==
    {[kind |-> "object", obj |-> b] : b \in Bundles(tool)}
    \cup {[kind |-> "array", obj |-> EmptyDict], [kind |-> "malformed", obj |-> EmptyDict]}

Entry(role, content, name, function_call) ==
    [role |-> role, content |-> content, name |-> name, function_call |-> function_call]

\* str(message) of the endpoint's message object
StrOfMessage(message) ==
    <<"ChatCompletionMessage(content=">> \o message.content \o <<", function_call=None)">>

\* json.dumps(tool_result)
json_dumps(value) == <<"json.dumps", value>>

IsIntent(e) == e.role = "assistant" /\ e.function_call # NoFunctionCall

IsToolResult(e) == e.role = "function"

IsAssistantText(e) == e.role = "assistant" /\ e.function_call = NoFunctionCall

\* chat(), lines 34-69: the names of the function schemas of the first request
functions == {"get_weather", "store_preference", "get_preferences"}

\* what the endpoint may answer to the request for the final reply: a text,
\* or a message that asks for a tool again and has no content
FinalMessages ==
    {[content |-> <<text>>, function_call |-> NoFunctionCall] : text \in ReplyTexts}
    \cup {[content |-> <<None>>,
           function_call |-> [name |-> "get_weather",
                              arguments |-> [kind |-> "object", obj |-> EmptyDict]]]}

\* chat(), lines 31-79: the user entry is appended and the first request is
\* sent with the function schemas
ChatStart ==
    /\ pc = "idle"
    /\ turns < MaxTurns
    /\ \E message \in UserMessages :
        conversation_history' =
            Append(conversation_history, Entry("user", <<message>>, None, NoFunctionCall))
    /\ pc' = "requesting"
    /\ turn' = [NoTurn EXCEPT !.sent = functions, !.requests = 1]
    /\ chatRet' = <<>>
    /\ turns' = turns + 1
    /\ UNCHANGED storeVars

\* chat(), lines 81-93: the three outcomes of the first request
FirstReply ==
    /\ pc = "requesting"
    /\ \/ \* the endpoint fails: except Exception
          /\ chatRet' = <<"Error: ", "endpoint failed">>
          /\ pc' = "idle"
          /\ UNCHANGED <<conversation_history, turn>>
       \/ \* a plain reply
          \E text \in ReplyTexts :
              LET message == [content |-> <<text>>, function_call |-> NoFunctionCall]
                  content == StrOfMessage(message)
              IN  /\ conversation_history' =
                        Append(conversation_history,
                               Entry("assistant", content, None, NoFunctionCall))
                  /\ chatRet' = content
                  /\ pc' = "idle"
                  /\ turn' = [turn EXCEPT !.message = message]
       \/ \* a tool-call intent
          \E tool \in ChatTools :
              \E arguments \in ModelArguments(tool) :
                  /\ turn' = [turn EXCEPT !.message =
                                [content |-> <<None>>,
                                 function_call |-> [name |-> tool, arguments |-> arguments]]]
                  /\ pc' = "dispatching"
                  /\ UNCHANGED <<conversation_history, chatRet>>
    /\ UNCHANGED <<storeVars, turns>>

\* ChatDispatch with the intent entry appended before the dispatcher runs
ChatDispatch_AppendsIntent ==
    /\ pc = "dispatching"
    /\ LET function_name == turn.message.function_call.name
           arguments == turn.message.function_call.arguments
       IN  /\ arguments.kind = "object"
           /\ \E env \in ChatEnvs(function_name) :
                   LET r == process_tool_call(function_name, arguments.obj,
                                              memory, disk, clock, env)
                   IN  /\ Dispatched(function_name, arguments.obj, r)
                       /\ chatRet' = IF r.exc # None THEN <<"Error: ", r.exc>> ELSE chatRet
                       /\ pc' = IF r.exc # None THEN "idle" ELSE "appending"
                       /\ turn' = [turn EXCEPT !.tool_result = r.value,
                                               !.dispatches = @ + 1]
    /\ conversation_history' =
           Append(conversation_history,
                  Entry("assistant", <<None>>, None, turn.message.function_call))
    /\ UNCHANGED turns

\* _handle_function_call, lines 98-104: json.loads and the dispatch; what
\* they raise is caught by chat()
ChatDispatch ==
    /\ pc = "dispatching"
    /\ LET function_name == turn.message.function_call.name
           arguments == turn.message.function_call.arguments
       IN  IF arguments.kind = "malformed" THEN
               /\ chatRet' = <<"Error: ", "JSONDecodeError">>
               /\ pc' = "idle"
               /\ UNCHANGED <<storeVars, turn>>
           ELSE IF arguments.kind = "array" THEN
               /\ chatRet' = <<"Error: ", "TypeError">>
               /\ pc' = "idle"
               /\ UNCHANGED <<storeVars, turn>>
           ELSE
               \E env \in ChatEnvs(function_name) :
                   LET r == process_tool_call(function_name, arguments.obj,
                                              memory, disk, clock, env)
                   IN  /\ Dispatched(function_name, arguments.obj, r)
                       /\ IF r.exc # None
                              THEN /\ chatRet' = <<"Error: ", r.exc>>
                                   /\ pc' = "idle"
                                   /\ turn' = [turn EXCEPT !.dispatches = @ + 1]
                              ELSE /\ chatRet' = chatRet
                                   /\ pc' = "appending"
                                   /\ turn' = [turn EXCEPT !.tool_result = r.value,
                                                           !.dispatches = @ + 1]
    /\ UNCHANGED <<conversation_history, turns>>

\* ChatAppend with the result entry forgotten
ChatAppend_IntentOnly ==
    /\ pc = "appending"
    /\ conversation_history' =
           Append(conversation_history,
                  Entry("assistant", <<None>>, None, turn.message.function_call))
    /\ pc' = "final_request"
    /\ turn' = [turn EXCEPT !.sent = {}, !.requests = @ + 1]
    /\ UNCHANGED <<storeVars, chatRet, turns>>

\* ChatAppend with the two entries in the other order
ChatAppend_ResultFirst ==
    /\ pc = "appending"
    /\ LET fc == turn.message.function_call
       IN  conversation_history' =
               conversation_history
               \o <<Entry("function", json_dumps(turn.tool_result), fc.name, NoFunctionCall),
                    Entry("assistant", <<None>>, None, fc)>>
    /\ pc' = "final_request"
    /\ turn' = [turn EXCEPT !.sent = {}, !.requests = @ + 1]
    /\ UNCHANGED <<storeVars, chatRet, turns>>

\* _handle_function_call, lines 107-128: the intent entry and the result
\* entry are appended and the request for the final reply is sent, without
\* function schemas
ChatAppend ==
    /\ pc = "appending"
    /\ LET fc == turn.message.function_call
       IN  conversation_history' =
               conversation_history
               \o <<Entry("assistant", <<None>>, None, fc),
                    Entry("function", json_dumps(turn.tool_result), fc.name, NoFunctionCall)>>
    /\ pc' = "final_request"
    /\ turn' = [turn EXCEPT !.sent = {}, !.requests = @ + 1]
    /\ UNCHANGED <<storeVars, chatRet, turns>>

\* FinalReply with the error text put into the transcript
FinalReply_AppendsError ==
    /\ pc = "final_request"
    /\ \/ /\ chatRet' = <<"Error processing tool result: ", "endpoint failed">>
          /\ conversation_history' =
                Append(conversation_history,
                       Entry("assistant", chatRet', None, NoFunctionCall))
          /\ UNCHANGED turn
       \/ \E final \in FinalMessages :
              /\ conversation_history' =
                    Append(conversation_history,
                           Entry("assistant", final.content, None, NoFunctionCall))
              /\ chatRet' = final.content
              /\ turn' = [turn EXCEPT !.final_response = final]
    /\ pc' = "idle"
    /\ UNCHANGED <<storeVars, turns>>

\* FinalReply looking for a tool-call intent in the final answer
FinalReply_Redispatch ==
    /\ pc = "final_request"
    /\ \/ /\ chatRet' = <<"Error processing tool result: ", "endpoint failed">>
          /\ pc' = "idle"
          /\ UNCHANGED <<conversation_history, turn>>
       \/ \E final \in FinalMessages :
              IF final.function_call # NoFunctionCall
                  THEN /\ turn' = [turn EXCEPT !.message = final]
                       /\ pc' = "dispatching"
                       /\ UNCHANGED <<conversation_history, chatRet>>
                  ELSE /\ conversation_history' =
                             Append(conversation_history,
                                    Entry("assistant", final.content, None, NoFunctionCall))
                       /\ chatRet' = final.content
                       /\ turn' = [turn EXCEPT !.final_response = final]
                       /\ pc' = "idle"
    /\ UNCHANGED <<storeVars, turns>>

\* _handle_function_call, lines 123-135: the outcomes of the request for the
\* final reply; the content of the answer is appended whatever else the
\* answer holds
FinalReply ==
    /\ pc = "final_request"
    /\ \/ /\ chatRet' = <<"Error processing tool result: ", "endpoint failed">>
          /\ UNCHANGED <<conversation_history, turn>>
       \/ \E final \in FinalMessages :
              /\ conversation_history' =
                    Append(conversation_history,
                           Entry("assistant", final.content, None, NoFunctionCall))
              /\ chatRet' = final.content
              /\ turn' = [turn EXCEPT !.final_response = final]
    /\ pc' = "idle"
    /\ UNCHANGED <<storeVars, turns>>

NextChat == ChatStart \/ FirstReply \/ ChatDispatch \/ ChatAppend \/ FinalReply

SpecChat == Init /\ [][NextChat]_vars

(***************************************************************************)
(* A second SimpleMCP on the same document, running the calls of           *)
(* demo_mcp_tools.  Its calls interleave with those on the first store, as *)
(* they do when the two stores live in two processes.  second.step is the  *)
(* number of statements of demo_mcp_tools the second store has run.        *)
(***************************************************************************)
\* demo_mcp_tools, line 140: mcp = SimpleMCP()
DemoConstruct ==
    /\ second.step = 0
    /\ second' = [step |-> 1, memory |-> _load_memory(disk, "ok")]
    /\ UNCHANGED <<memory, disk, clock, lastCall, ret, netlog, lastSave, faults,
                   twice, firstSeen, chatVars>>

\* demo_mcp_tools, line 144: process_tool_call("get_weather", city="Tokyo")
DemoWeather ==
    /\ second.step = 1
    /\ \E env \in ChatEnvs("get_weather") :
           LET r == process_tool_call("get_weather", [city |-> "Tokyo"],
                                      second.memory, disk, clock, env)
           IN  /\ second' = [step |-> 2, memory |-> r.memory]
               /\ disk' = r.disk
    /\ UNCHANGED <<memory, clock, lastCall, ret, netlog, lastSave, faults,
                   twice, firstSeen, chatVars>>

\* the preference of the store_preference call that is statement number step
DemoPreference(step) == IF step = 3 THEN "museums" ELSE "local food"

\* DemoStore with the document read again before each call
DemoStore_Reloads ==
    /\ second.step \in {2, 3}
    /\ LET r == process_tool_call("store_preference",
                                  [category |-> "travel",
                                   preference |-> DemoPreference(second.step + 1)],
                                  _load_memory(disk, "ok"), disk, clock, DefaultEnv)
       IN  /\ second' = [step |-> second.step + 1, memory |-> r.memory]
           /\ disk' = r.disk
    /\ UNCHANGED <<memory, clock, lastCall, ret, netlog, lastSave, faults,
                   twice, firstSeen, chatVars>>

\* demo_mcp_tools, lines 149-150: the two store_preference calls
DemoStore ==
    /\ second.step \in {2, 3}
    /\ LET r == process_tool_call("store_preference",
                                  [category |-> "travel",
                                   preference |-> DemoPreference(second.step + 1)],
                                  second.memory, disk, clock, DefaultEnv)
       IN  /\ second' = [step |-> second.step + 1, memory |-> r.memory]
           /\ disk' = r.disk
    /\ UNCHANGED <<memory, clock, lastCall, ret, netlog, lastSave, faults,
                   twice, firstSeen, chatVars>>

\* demo_mcp_tools, lines 151-154: get_preferences(category="travel"), and
\* the function returns: its store is gone
DemoReturn ==
    /\ second.step = 4
    /\ LET r == process_tool_call("get_preferences", [category |-> "travel"],
                                  second.memory, disk, clock, DefaultEnv)
       IN  /\ second' = NoSecond
           /\ disk' = r.disk
    /\ UNCHANGED <<memory, clock, lastCall, ret, netlog, lastSave, faults,
                   twice, firstSeen, chatVars>>

\* the calls on the first store meanwhile: the dispatches of its process
SharedCalls ==
    {[tool |-> "store_preference",
      args |-> [category |-> "travel", preference |-> "museums"]],
     [tool |-> "store_conversation", args |-> [topic |-> "Ab"]]}

SharedCall ==
    /\ pc = "idle"
    /\ \E call \in SharedCalls :
           /\ Allowed(call.tool, DefaultEnv, MaxSharedConvs, 0)
           /\ Dispatched(call.tool, call.args,
                         process_tool_call(call.tool, call.args, memory, disk,
                                           clock, DefaultEnv))
    /\ UNCHANGED chatVars

NextShared ==
    \/ SharedCall
    \/ DemoConstruct
    \/ DemoWeather
    \/ DemoStore
    \/ DemoReturn

SpecShared == Init /\ [][NextShared]_vars

(***************************************************************************)
(* The transcript.                                                         *)
(***************************************************************************)
\* C1: whenever chat() has returned, every tool-call intent entry of
\* conversation_history is immediately followed by exactly one tool-result
\* entry naming the same tool, so no assistant text lies between them.
C1_IntentThenResult ==
    pc = "idle" =>
        \A i \in 1..Len(conversation_history) :
            IsIntent(conversation_history[i]) =>
                /\ i < Len(conversation_history)
                /\ IsToolResult(conversation_history[i + 1])
                /\ conversation_history[i + 1].name =
                       conversation_history[i].function_call.name
                /\ i + 2 <= Len(conversation_history) =>
                       ~IsToolResult(conversation_history[i + 2])

\* two turns have returned, each with an intent in the transcript, the
\* second one's final request having failed
C1_Witness ==
    /\ pc = "idle"
    /\ Len(conversation_history) = 7
    /\ IsIntent(conversation_history[2])
    /\ IsIntent(conversation_history[6])
    /\ chatRet = <<"Error processing tool result: ", "endpoint failed">>

(***************************************************************************)
(* The dispatcher.                                                         *)
(***************************************************************************)
\* C2: process_tool_call never raises: for every tool name, argument bundle,
\* upstream outcome and store state the call returns a result payload.
C2_NeverRaises == lastCall # NoCall => ret.exc = None

\* C3: for a tool name outside the five known ones and any arguments,
\* process_tool_call returns exactly {error: "Unknown tool: <name>"} and does
\* not raise.
C3_UnknownTool ==
    (lastCall # NoCall /\ lastCall.tool \notin ToolNames) =>
        ret = [exc |-> None, value |-> [error |-> <<"Unknown tool: ", lastCall.tool>>]]

(***************************************************************************)
(* The preferences.                                                        *)
(***************************************************************************)
SavedFile(mem) == [state |-> "ok", text |-> json_dump(mem)]

IsStorePreference(call) == call.tool = "store_preference"

CategoryOf(call) == Get(call.args, "category", "")

PreferenceOf(call) == Get(call.args, "preference", "")

\* C4: store_preference is idempotent.  A step that repeats the call that
\* just returned (twice') leaves the in-memory document as the first call
\* left it and, when its write succeeds, the file as the first call's write
\* makes it; and a call that finds its category absent leaves a list of
\* length 1, which the repeated call then keeps.
C4_Idempotent ==
    [][ /\ twice' =>
            /\ memory' = memory
            /\ lastSave' = "ok" => disk' = SavedFile(memory)
            /\ lastSave' = "ok" /\ lastSave = "ok" => disk' = disk
        /\ ( /\ IsStorePreference(lastCall')
             /\ ret'.exc = None
             /\ CategoryOf(lastCall') \notin DOMAIN Preferences(memory) ) =>
                Preferences(memory')[CategoryOf(lastCall')] = <<PreferenceOf(lastCall')>>
      ]_vars

\* store_preference("travel", "museums") was called twice in a row on a store
\* without the category, both writes succeeding
C4_Witness ==
    /\ twice
    /\ lastSave = "ok"
    /\ lastCall.args = [category |-> "travel", preference |-> "museums"]
    /\ Preferences(memory) = [travel |-> <<"museums">>]
    /\ disk = SavedFile(memory)

NoDuplicate(list) ==
    \A i, j \in 1..Len(list) : i # j => list[i] # list[j]

\* the preferences of a category by the rank of their first insertion
ByFirstInsertion(ranks) ==
    [i \in 1..Cardinality(DOMAIN ranks) |-> CHOOSE p \in DOMAIN ranks : ranks[p] = i]

\* C5: every category's list holds no string twice and lists its preferences
\* in the order of their first insertion.
C5_InsertionOrder ==
    /\ DOMAIN Preferences(memory) = DOMAIN firstSeen
    /\ \A c \in DOMAIN Preferences(memory) :
        /\ NoDuplicate(Preferences(memory)[c])
        /\ Preferences(memory)[c] = ByFirstInsertion(firstSeen[c])

\* two categories hold two preferences each, in different orders, store and
\* get calls of both kinds having been made
C5_Witness ==
    /\ Preferences(memory) = ("" :> <<"museums", "">>) @@ ("travel" :> <<"", "museums">>)
    /\ Len(Conversations(memory)) = MaxConvs
    /\ lastCall.tool = "get_conversations"

\* C6: get_preferences with a category c given returns exactly {c: the list
\* stored under c}, [] when nothing is stored under c, the empty string
\* included; with no category it returns the full mapping.
C6_GetPreferences ==
    (lastCall.tool = "get_preferences" /\ ret.exc = None) =>
        IF "category" \in DOMAIN lastCall.args
            THEN ret.value =
                    (lastCall.args.category :>
                        Get(Preferences(memory), lastCall.args.category, <<>>))
            ELSE ret.value = Preferences(memory)

(***************************************************************************)
(* The conversation log.  Where no write fails, the clock has ticked once  *)
(* per store_conversation call, and the n-th call stamped its entry n.     *)
(***************************************************************************)
IsGetConversations(call) == call.tool = "get_conversations"

Appended == clock - 1

Min(a, b) == IF a <= b THEN a ELSE b

\* C7: after n store_conversation calls, get_conversations with no topic
\* returns min(n, 5) entries: the most recently appended ones, oldest first.
C7_LastFive ==
    ( /\ IsGetConversations(lastCall)
      /\ ret.exc = None
      /\ "topic" \notin DOMAIN lastCall.args ) =>
        LET got == ret.value.conversations
        IN  /\ Len(got) = Min(Appended, 5)
            /\ \A i \in 1..Len(got) :
                /\ got[i].timestamp = Appended - Len(got) + i
                /\ got[i] = Conversations(memory)[got[i].timestamp]

\* six entries were appended and get_conversations() returned the last five
C7_Witness ==
    /\ IsGetConversations(lastCall)
    /\ lastCall.args = EmptyDict
    /\ Appended = 6
    /\ Len(ret.value.conversations) = 5
    /\ ret.value.conversations[1].timestamp = 2
    /\ ret.value.conversations[1].topic # ret.value.conversations[5].topic

\* the entries whose topic contains the given string, case-insensitively
TopicMatches(topic, entry) == IsSubstring(Lower(topic), Lower(entry.topic))

\* C8: for every topic string given, get_conversations returns all stored
\* entries whose topic contains it case-insensitively, in append order, with
\* no limit, and no other entry.
C8_FilterByTopic ==
    ( /\ IsGetConversations(lastCall)
      /\ ret.exc = None
      /\ "topic" \in DOMAIN lastCall.args ) =>
        ret.value.conversations =
            SelectSeq(Conversations(memory),
                      LAMBDA c : TopicMatches(lastCall.args.topic, c))

(***************************************************************************)
(* Persistence.                                                            *)
(***************************************************************************)
IsStore(call) == call.tool \in {"store_preference", "store_conversation"}

\* what a new store constructed from the file would answer
ReloadedAnswersAsBefore ==
    LET reloaded == _load_memory(disk, "ok")
    IN  /\ get_preferences(reloaded, None) = get_preferences(memory, None)
        /\ get_conversations(reloaded, None) = get_conversations(memory, None)

\* C9, as claimed: whenever store_preference or store_conversation has
\* returned, the document on disk equals the in-memory document, so a new
\* store constructed from it answers get_preferences() and get_conversations()
\* as the store did.
C9_DiskEqualsMemory ==
    (IsStore(lastCall) /\ ret.exc = None) =>
        /\ disk.state = "ok"
        /\ json_load(disk.text) = memory
        /\ ReloadedAnswersAsBefore

\* C9, amended: whenever store_preference or store_conversation has returned
\* and its write of the document succeeded, the document on disk equals the
\* in-memory document, so a new store constructed from it answers
\* get_preferences() and get_conversations() as the store did.
C9_DiskEqualsMemoryAfterWrite ==
    (IsStore(lastCall) /\ ret.exc = None /\ lastSave = "ok") =>
        /\ disk.state = "ok"
        /\ json_load(disk.text) = memory
        /\ ReloadedAnswersAsBefore

\* a store_conversation whose write succeeded, after an earlier I/O fault,
\* with preferences and a conversation in the document
C9_Witness ==
    /\ lastCall.tool = "store_conversation"
    /\ lastSave = "ok"
    /\ faults = 1
    /\ Len(Conversations(memory)) = 1
    /\ Cardinality(DOMAIN Preferences(memory)) = 2

IsPrefix(a, b) == Len(a) <= Len(b) /\ SubSeq(b, 1, Len(a)) = a

\* everything document m holds, document n holds too, in the same place
Keeps(m, n) ==
    /\ \A c \in DOMAIN Preferences(m) :
        /\ c \in DOMAIN Preferences(n)
        /\ IsPrefix(Preferences(m)[c], Preferences(n)[c])
    /\ IsPrefix(Conversations(m), Conversations(n))

NormalPayload(call) ==
    IF call.tool = "store_preference"
        THEN [status |-> "stored", category |-> CategoryOf(call),
              preference |-> PreferenceOf(call)]
        ELSE [status |-> "stored", topic |-> Get(call.args, "topic", "")]

\* the in-memory document holds what the call stored
Holds(mem, call) ==
    IF call.tool = "store_preference"
        THEN /\ CategoryOf(call) \in DOMAIN Preferences(mem)
             /\ InList(PreferenceOf(call), Preferences(mem)[CategoryOf(call)])
        ELSE /\ Conversations(mem) # <<>>
             /\ Conversations(mem)[Len(Conversations(mem))].topic = Get(call.args, "topic", "")

\* C10: when the write fails during store_preference or store_conversation,
\* the call does not raise and returns its normal payload, nothing held in
\* memory before is lost, and later get_preferences / get_conversations calls
\* answer from the in-memory document, whatever the file holds.
C10_SaveFailureNonFatal ==
    [][ /\ (lastSave' \in {"open_failed", "write_failed"} /\ faults' = faults + 1) =>
            /\ ret'.exc = None
            /\ ret'.value = NormalPayload(lastCall')
            /\ Keeps(memory, memory')
            /\ Holds(memory', lastCall')
        /\ (lastCall'.tool = "get_preferences" /\ lastCall'.args = EmptyDict) =>
            ret'.value = Preferences(memory')
        /\ (lastCall'.tool = "get_conversations" /\ lastCall'.args = EmptyDict) =>
            ret'.value.conversations = LastN(Conversations(memory'), 5)
      ]_vars

\* a store_preference whose write failed midway returned normally; the file
\* is unparsable and the preference is in memory with the earlier ones
C10_Witness ==
    /\ lastCall.tool = "store_preference"
    /\ lastSave = "write_failed"
    /\ ret = [exc |-> None, value |-> NormalPayload(lastCall)]
    /\ disk = CorruptFile
    /\ Preferences(memory) = [travel |-> <<"museums", "">>]

C12_EndpointFailure ==
    [][ LET n == Len(conversation_history)
        IN  /\ (pc = "requesting" /\ pc' = "idle" /\ turn'.message = NoMessage) =>
                  /\ chatRet' = <<"Error: ", "endpoint failed">>
                  /\ conversation_history' = conversation_history
                  /\ n >= 1
                  /\ conversation_history[n].role = "user"
            /\ (pc = "final_request" /\ pc' = "idle"
                  /\ turn'.final_response = NoMessage) =>
                  /\ chatRet' = <<"Error processing tool result: ", "endpoint failed">>
                  /\ conversation_history' = conversation_history
                  /\ n >= 3
                  /\ conversation_history[n - 2].role = "user"
                  /\ IsIntent(conversation_history[n - 1])
                  /\ IsToolResult(conversation_history[n])
      ]_vars

\* a turn whose final request failed, after a turn whose first request failed
C12_Witness ==
    /\ pc = "idle"
    /\ turns = 2
    /\ turn.requests = 2
    /\ turn.final_response = NoMessage
    /\ Len(conversation_history) = 4
    /\ conversation_history[1].role = "user"
    /\ conversation_history[2].role = "user"
    /\ IsToolResult(conversation_history[4])

(***************************************************************************)
(* The first request and its plain reply.                                  *)
(***************************************************************************)
\* C13: when the first response of a turn is a plain text reply with text t,
\* chat() appends exactly one assistant entry whose content is t, returns t
\* and invokes no tool.
C13_PlainReply ==
    [][ ( /\ pc = "requesting"
          /\ turn'.message # NoMessage
          /\ turn'.message.function_call = NoFunctionCall ) =>
            /\ conversation_history' =
                 Append(conversation_history,
                        Entry("assistant", turn'.message.content, None, NoFunctionCall))
            /\ chatRet' = turn'.message.content
            /\ pc' = "idle"
            /\ UNCHANGED storeVars
      ]_vars

\* C14: the first request of every turn carries the full registry: the tool
\* names sent to the model are the five names the dispatcher recognizes.
C14_FullRegistry == (pc = "requesting") => (turn.sent = ToolNames)

(***************************************************************************)
(* The transcript around the dispatch.                                     *)
(***************************************************************************)
\* C15, as stated: in a turn with a tool-call intent, the transcript the
\* request for the final reply receives has, as its last-but-one entry, the
\* tool-result entry naming the dispatched tool.
C15_ResultLastButOne ==
    pc = "final_request" =>
        LET n == Len(conversation_history)
        IN  /\ n >= 2
            /\ IsToolResult(conversation_history[n - 1])
            /\ conversation_history[n - 1].name = turn.message.function_call.name

\* C15, amended: in a turn with a tool-call intent, the transcript the
\* request for the final reply receives has, as its last entry, the
\* tool-result entry naming the dispatched tool and carrying the serialized
\* result, and as its last-but-one entry the intent entry for that tool.
C15_ResultLast ==
    pc = "final_request" =>
        LET n == Len(conversation_history)
        IN  /\ n >= 2
            /\ IsToolResult(conversation_history[n])
            /\ conversation_history[n].name = turn.message.function_call.name
            /\ conversation_history[n].name = lastCall.tool
            /\ conversation_history[n].content = json_dumps(ret.value)
            /\ IsIntent(conversation_history[n - 1])
            /\ conversation_history[n - 1].function_call = turn.message.function_call

\* the final request of a "weather in Tokyo" turn that dispatched get_weather
C15_Witness ==
    /\ pc = "final_request"
    /\ conversation_history[Len(conversation_history) - 2].content = <<"weather in Tokyo">>
    /\ conversation_history[Len(conversation_history)].name = "get_weather"
    /\ "city" \in DOMAIN ret.value

\* C17, as stated: the intent entry is appended before the dispatcher is
\* invoked: when process_tool_call runs, the last transcript entry is the
\* intent entry for that tool.
C17_IntentBeforeDispatch ==
    pc = "dispatching" =>
        /\ conversation_history # <<>>
        /\ IsIntent(conversation_history[Len(conversation_history)])
        /\ conversation_history[Len(conversation_history)].function_call =
               turn.message.function_call

\* C17, amended: the intent entry is appended only after the dispatcher has
\* returned.  When process_tool_call runs, the last transcript entry is the
\* user entry of the turn, and the dispatch appends nothing; the intent
\* entry and, right after it, the tool-result entry are appended once the
\* dispatch has returned without raising, and a dispatch that raises leaves
\* neither.
C17_IntentAfterDispatch ==
    [][ LET n == Len(conversation_history)
            m == Len(conversation_history')
        IN  /\ pc = "dispatching" =>
                  /\ n >= 1
                  /\ conversation_history[n].role = "user"
                  /\ conversation_history' = conversation_history
                  /\ pc' = IF turn'.dispatches = 1 /\ ret'.exc = None
                               THEN "appending" ELSE "idle"
            /\ (m > n /\ IsToolResult(conversation_history'[m])) =>
                  /\ pc = "appending"
                  /\ turn.dispatches = 1
                  /\ ret.exc = None
                  /\ m = n + 2
                  /\ IsIntent(conversation_history'[m - 1])
            /\ (m > n /\ IsIntent(conversation_history'[m])) => FALSE
      ]_vars

\* a dispatch has returned and nothing but the user entry is in the transcript
C17_Witness ==
    /\ pc = "appending"
    /\ turn.dispatches = 1
    /\ lastCall.tool = "store_preference"
    /\ Len(conversation_history) = 1
    /\ conversation_history[1].role = "user"

(***************************************************************************)
(* The weather lookup.                                                     *)
(***************************************************************************)
NotFound(city) == [error |-> <<"City '", city, "' not found">>]

\* C16: when the geocoding lookup returns no results for the city,
\* get_weather returns {error: "City '<city>' not found"} and requests the
\* geocoding endpoint only; whenever the forecast endpoint is requested, it
\* is requested after the geocoding endpoint, whose lookup found the city.
C16_NoForecastWithoutGeocode ==
    (lastCall.tool = "get_weather" /\ ret.exc = None) =>
        LET city == Get(lastCall.args, "city", "")
            country == Get(lastCall.args, "country", "")
        IN  /\ \A env \in Envs("get_weather") :
                 LET r == get_weather(city, country, env)
                 IN  /\ env.geo = "no_results" =>
                            r = [value |-> NotFound(city), net |-> <<"geocoding">>]
                     /\ InList("forecast", r.net) =>
                            /\ env.geo = "found"
                            /\ r.net = <<"geocoding", "forecast">>
                            /\ r.value # NotFound(city)
            /\ ret.value = NotFound(city) => netlog = <<"geocoding">>
            /\ InList("forecast", netlog) =>
                   /\ netlog = <<"geocoding", "forecast">>
                   /\ \E env \in Envs("get_weather") :
                          /\ env.geo = "found"
                          /\ get_weather(city, country, env) =
                                 [value |-> ret.value, net |-> netlog]

\* a lookup of a city the geocoder does not know has returned
C16_Witness ==
    /\ lastCall = [tool |-> "get_weather", args |-> [city |-> "Tokyo"]]
    /\ ret = [exc |-> None, value |-> NotFound("Tokyo")]
    /\ netlog = <<"geocoding">>

(***************************************************************************)
(* The length of a turn.                                                   *)
(***************************************************************************)
\* the steps chat() can still take from a position
StepsLeft(position) ==
    CASE position = "requesting"    -> 4
      [] position = "dispatching"   -> 3
      [] position = "appending"     -> 2
      [] position = "final_request" -> 1
      [] OTHER                      -> 0

\* C18: a turn sends at most two requests to the model and calls the
\* dispatcher at most once, and every step of a running turn brings it
\* nearer to its return.  The request for the final reply carries no tool
\* name; the step that gets its answer returns, calls no tool, and appends
\* the content of the answer as an assistant text entry whatever the answer
\* holds.
C18_TurnIsBounded ==
    /\ [](turn.requests <= 2 /\ turn.dispatches <= 1)
    /\ [](pc = "final_request" => turn.sent = {} /\ turn.requests = 2)
    /\ [][ /\ pc # "idle" => StepsLeft(pc') < StepsLeft(pc)
           /\ pc = "final_request" =>
                 /\ pc' = "idle"
                 /\ turn'.dispatches = turn.dispatches
                 /\ turn'.requests = turn.requests
                 /\ UNCHANGED storeVars
                 /\ turn'.final_response # NoMessage =>
                        /\ conversation_history' =
                             Append(conversation_history,
                                    Entry("assistant", turn'.final_response.content,
                                          None, NoFunctionCall))
                        /\ chatRet' = turn'.final_response.content
         ]_vars

\* a turn has returned after two requests and one dispatch, the answer to
\* its final request having asked for a tool again
C18_Witness ==
    /\ pc = "idle"
    /\ turn.requests = 2
    /\ turn.dispatches = 1
    /\ turn.final_response.function_call # NoFunctionCall
    /\ chatRet = <<None>>
    /\ IsAssistantText(conversation_history[Len(conversation_history)])

(***************************************************************************)
(* What a step changes of the store.                                       *)
(***************************************************************************)
\* the document a store constructed now would read
DiskDocument(dsk) == _load_memory(dsk, "ok")

SameDocument == memory' = memory /\ disk' = disk

\* C19: only store_preference and store_conversation change the store.  A
\* step of chat() other than the dispatch, and the dispatch of get_weather,
\* get_preferences, get_conversations or an unknown tool, leave the
\* in-memory document and the file as they were.  The dispatch of
\* store_preference leaves the conversations log as it was, in memory and
\* in the file; the dispatch of store_conversation leaves the preferences
\* mapping as it was and the log either as it was or longer by one entry at
\* its end.
C19_Frame ==
    [][ LET name == turn.message.function_call.name
            log == Conversations(memory)
        IN  /\ pc # "dispatching" => SameDocument
            /\ (pc = "dispatching" /\ name \notin {"store_preference", "store_conversation"})
                  => SameDocument
            /\ (pc = "dispatching" /\ turn'.dispatches = 0) => SameDocument
            /\ (pc = "dispatching" /\ name = "store_preference") =>
                  /\ Conversations(memory') = log
                  /\ ("conversations" \in DOMAIN memory') = ("conversations" \in DOMAIN memory)
                  /\ Conversations(DiskDocument(disk')) = Conversations(DiskDocument(disk))
            /\ (pc = "dispatching" /\ name = "store_conversation") =>
                  /\ Preferences(memory') = Preferences(memory)
                  /\ ("preferences" \in DOMAIN memory') = ("preferences" \in DOMAIN memory)
                  /\ Preferences(DiskDocument(disk')) = Preferences(DiskDocument(disk))
                  /\ IF ret'.exc = None /\ turn'.dispatches = 1
                         THEN /\ Len(Conversations(memory')) = Len(log) + 1
                              /\ SubSeq(Conversations(memory'), 1, Len(log)) = log
                              /\ Conversations(memory')[Len(log) + 1].topic =
                                     Get(lastCall'.args, "topic", "")
                         ELSE SameDocument
      ]_vars

\* the second turn has dispatched store_conversation on a store that holds a
\* preference
C19_Witness ==
    /\ pc = "appending"
    /\ lastCall.tool = "store_conversation"
    /\ Preferences(memory) = ("travel" :> <<"museums">>)
    /\ Len(Conversations(memory)) = 1
    /\ DiskDocument(disk) = memory

(***************************************************************************)
(* Two stores on one document.                                             *)
(***************************************************************************)
SecondWrites == second.step \in {2, 3} /\ second'.step = second.step + 1

FirstWrites == second' = second /\ IsStore(lastCall') /\ lastSave' = "ok"

\* C20: each of two stores on one document keeps the copy it loaded at its
\* construction and adds to that copy alone; each mutation writes the whole
\* document from the writer's copy, so that after the write the file holds
\* exactly the writer's in-memory document, and the other store's copy
\* stays as it was.
C20_LastWriterWins ==
    [][ /\ (second.step = 0 /\ second'.step = 1) =>
              second'.memory = DiskDocument(disk)
        /\ SecondWrites =>
              /\ second'.memory =
                   store_preference(second.memory, NoFile, "travel",
                                    DemoPreference(second'.step), "ok").memory
              /\ disk'.state = "ok"
              /\ DiskDocument(disk') = second'.memory
              /\ memory' = memory
        /\ FirstWrites =>
              /\ memory' =
                   IF lastCall'.tool = "store_preference"
                       THEN store_preference(memory, NoFile, CategoryOf(lastCall'),
                                             PreferenceOf(lastCall'), "ok").memory
                       ELSE store_conversation(memory, NoFile,
                                               Get(lastCall'.args, "topic", ""),
                                               Get(lastCall'.args, "summary", ""),
                                               clock, "ok").memory
              /\ disk'.state = "ok"
              /\ DiskDocument(disk') = memory'
      ]_vars

\* a lost update: with no I/O fault, the first store holds a conversation it
\* has written to the file, and the file, last written by a second store
\* that was constructed before, does not hold it
C20_Witness ==
    /\ faults = 0
    /\ Len(Conversations(memory)) = 1
    /\ second.step = 3
    /\ disk.state = "ok"
    /\ DiskDocument(disk) = second.memory
    /\ Conversations(DiskDocument(disk)) = <<>>

====
